---- MODULE Spec2Model ----
(***************************************************************************)
(* Seam pipeline of Atticus: blender_scripts/snap_points_and_draw_curve.py *)
(* (calibrate + snap), blender_scripts/imprint_seams_from_points.py        *)
(* (vertex resolution, chain connection, seam scan, preview) and           *)
(* app/tasks/seam_tasks.py (run_seam_task).                                *)
(*                                                                         *)
(* Geometry is an integer lattice.  A position is a triple <<x, y, z>>.    *)
(* Every mesh lies in the plane z = 0 with convex faces; the surface of a  *)
(* face is the set of lattice positions it covers.  matrix_world of the    *)
(* imported object is the identity.  Python lists are sequences indexed    *)
(* from 1, so index i here is index i - 1 in the source.                   *)
(***************************************************************************)
EXTENDS Integers, Sequences, FiniteSets, TLC

(***************************************************************************)
(* Bounds of the model.                                                    *)
(***************************************************************************)
\* longest point list of a payload
MaxPts == 3
\* the lattice spans 0..GridMax in x and y
GridMax == 2
\* longest chain of edges one connect_vert_pair call returns
MaxPathLen == 2
\* fixed-point resolution of a float length: lengths are in 1/LenScale units
LenScale == 4

\* Python's None, for a query without a hit
None == <<>>
\* a payload entry that is no object with numeric x, y and z
Bad == <<>>

(***************************************************************************)
(* mathutils.Vector                                                        *)
(***************************************************************************)
Vec(x, y, z) == <<x, y, z>>

VAdd(p, q) == <<p[1] + q[1], p[2] + q[2], p[3] + q[3]>>

\* squared length of p - q
D2(p, q) ==
  (p[1] - q[1]) * (p[1] - q[1]) + (p[2] - q[2]) * (p[2] - q[2])
    + (p[3] - q[3]) * (p[3] - q[3])

ISqrt(n) == CHOOSE r \in 0..n : r * r <= n /\ (r + 1) * (r + 1) > n

\* float((p - q).length), in 1/LenScale units
Length(p, q) == ISqrt(D2(p, q) * LenScale * LenScale)

Min2(a, b) == IF a <= b THEN a ELSE b
Max2(a, b) == IF a >= b THEN a ELSE b

RECURSIVE SeqSum(_)
SeqSum(s) == IF s = <<>> THEN 0 ELSE Head(s) + SeqSum(Tail(s))

Range(s) == {s[i] : i \in 1..Len(s)}

(***************************************************************************)
(* Meshes.  verts: positions; edges: records [a, b, seam] over vertex      *)
(* indices; faces: vertex-index loops.                                     *)
(***************************************************************************)
Edge(a, b) == [a |-> a, b |-> b, seam |-> FALSE]

QuadMesh ==
  [verts |-> <<Vec(0, 0, 0), Vec(2, 0, 0), Vec(2, 2, 0), Vec(0, 2, 0)>>,
   edges |-> <<Edge(1, 2), Edge(2, 3), Edge(3, 4), Edge(4, 1)>>,
   faces |-> << <<1, 2, 3, 4>> >>]

\* loose vertices joined by edges, no face
WireMesh ==
  [verts |-> <<Vec(0, 0, 0), Vec(2, 0, 0), Vec(2, 2, 0)>>,
   edges |-> <<Edge(1, 2), Edge(2, 3)>>,
   faces |-> <<>>]

\* two triangles sharing the diagonal 1-3
TriMesh ==
  [verts |-> <<Vec(0, 0, 0), Vec(2, 0, 0), Vec(2, 2, 0), Vec(0, 2, 0)>>,
   edges |-> <<Edge(1, 2), Edge(2, 3), Edge(3, 1), Edge(3, 4), Edge(4, 1)>>,
   faces |-> << <<1, 2, 3>>, <<1, 3, 4>> >>]

MeshCatalog == {QuadMesh, WireMesh, TriMesh}

Lattice == {Vec(x, y, 0) : x \in 0..GridMax, y \in 0..GridMax}

\* z component of (b - a) x (q - a)
Cross(a, b, q) ==
  (b[1] - a[1]) * (q[2] - a[2]) - (b[2] - a[2]) * (q[1] - a[1])

\* q lies on face loop f of mesh m (border included)
InFace(m, f, q) ==
  LET n == Len(f)
      P(i) == m.verts[f[i]]
      Nx(i) == m.verts[f[(i % n) + 1]]
  IN /\ q[3] = 0
     /\ \E i \in 1..n : P(i)[1] <= q[1]
     /\ \E i \in 1..n : P(i)[1] >= q[1]
     /\ \E i \in 1..n : P(i)[2] <= q[2]
     /\ \E i \in 1..n : P(i)[2] >= q[2]
     /\ \/ \A i \in 1..n : Cross(P(i), Nx(i), q) >= 0
        \/ \A i \in 1..n : Cross(P(i), Nx(i), q) <= 0

Surface(m) == {q \in Lattice : \E i \in 1..Len(m.faces) : InFace(m, m.faces[i], q)}

\* order that makes the nearest position unique
PosKey(p, q) == (D2(p, q) * (GridMax + 1) + q[1]) * (GridMax + 1) + q[2]

\* BVHTree.find_nearest(p): the nearest surface position, None on a tree
\* without faces
NearestLoc(m, p) ==
  LET S == Surface(m)
  IN IF S = {} THEN None
     ELSE CHOOSE q \in S : \A r \in S : PosKey(p, q) <= PosKey(p, r)

\* BVHTree.find_nearest(p, distance): a hit only closer than distance
NearestLocWithin(m, p, maxd) ==
  LET q == NearestLoc(m, p)
  IN IF q = None THEN None
     ELSE IF D2(p, q) < maxd * maxd THEN q ELSE None

\* faces a hit at position q may report
HitFaces(m, q) == {i \in 1..Len(m.faces) : InFace(m, m.faces[i], q)}

\* KDTree.find: indices of the vertices nearest to p
NearestVerts(m, p) ==
  {i \in 1..Len(m.verts) :
     \A j \in 1..Len(m.verts) : D2(p, m.verts[i]) <= D2(p, m.verts[j])}

(***************************************************************************)
(* Host mesh operators (bmesh.ops).                                        *)
(***************************************************************************)
RemoveAt(s, i) == SubSeq(s, 1, i - 1) \o SubSeq(s, i + 1, Len(s))

\* the poke without the move of the new vertex: it stays at the face centre
InsertVertexOnFaceCentre(m, fi, co) ==
  LET f == m.faces[fi]
      n == Len(f)
      v == Len(m.verts) + 1
      c == Vec(SeqSum([i \in 1..n |-> m.verts[f[i]][1]]) \div n,
               SeqSum([i \in 1..n |-> m.verts[f[i]][2]]) \div n, 0)
  IN [verts |-> Append(m.verts, c),
      edges |-> m.edges \o [i \in 1..n |-> Edge(f[i], v)],
      faces |-> RemoveAt(m.faces, fi) \o [i \in 1..n |-> <<f[i], f[(i % n) + 1], v>>]]

\* bmesh.ops.poke(bm, faces=[face]) followed by v.co = co: face fi becomes a
\* fan of triangles around one new vertex, placed at co (poke makes one
\* vertex per poked face, so line 232 does not raise)
InsertVertexOnFace(m, fi, co) ==
  LET f == m.faces[fi]
      n == Len(f)
      v == Len(m.verts) + 1
  IN [verts |-> Append(m.verts, co),
      edges |-> m.edges \o [i \in 1..n |-> Edge(f[i], v)],
      faces |-> RemoveAt(m.faces, fi) \o [i \in 1..n |-> <<f[i], f[(i % n) + 1], v>>]]

EdgeIdx(m, u, v) ==
  {i \in 1..Len(m.edges) : {m.edges[i].a, m.edges[i].b} = {u, v}}

PosIn(f, u) == CHOOSE i \in 1..Len(f) : f[i] = u

\* face fi cut in two along the new edge u-v
SplitFace(m, fi, u, v) ==
  LET f == m.faces[fi]
      i == Min2(PosIn(f, u), PosIn(f, v))
      j == Max2(PosIn(f, u), PosIn(f, v))
  IN [verts |-> m.verts,
      edges |-> Append(m.edges, Edge(u, v)),
      faces |-> RemoveAt(m.faces, fi)
                  \o << SubSeq(f, i, j), SubSeq(f, j, Len(f)) \o SubSeq(f, 1, i) >>]

\* one edge from u to v: the edge that joins them already, or a new edge
\* across a face that holds both
DirectSteps(m, u, v) ==
  IF EdgeIdx(m, u, v) # {}
  THEN {[m |-> m, es |-> EdgeIdx(m, u, v)]}
  ELSE {[m |-> SplitFace(m, fi, u, v), es |-> {Len(m.edges) + 1}] :
          fi \in {i \in 1..Len(m.faces) : {u, v} \subseteq Range(m.faces[i])}}

\* vertices strictly between u and v on the straight cut
Between(m, u, v) ==
  {w \in 1..Len(m.verts) :
     LET a == m.verts[u]
         b == m.verts[v]
         q == m.verts[w]
     IN /\ q # a /\ q # b
        /\ Cross(a, b, q) = 0 /\ q[3] = 0
        /\ Min2(a[1], b[1]) <= q[1] /\ q[1] <= Max2(a[1], b[1])
        /\ Min2(a[2], b[2]) <= q[2] /\ q[2] <= Max2(a[2], b[2])}

\* bmesh.ops.connect_vert_pair(bm, verts=[v0, v1]) when it finds a path: the
\* mesh it leaves and the edges it returns, chains of at most n edges
RECURSIVE ConnectPaths(_, _, _, _)
ConnectPaths(m, u, v, n) ==
  DirectSteps(m, u, v) \cup
    (IF n <= 1 THEN {}
     ELSE UNION {UNION {{[m |-> r2.m, es |-> r1.es \cup r2.es] :
                           r2 \in ConnectPaths(r1.m, w, v, n - 1)} :
                        r1 \in DirectSteps(m, u, w)} :
                 w \in Between(m, u, v)})

\* only one of the returned edges is flagged
SetSeamFirst(m, es) ==
  [m EXCEPT !.edges =
     [i \in 1..Len(m.edges) |->
        IF es # {} /\ i = (CHOOSE e \in es : \A d \in es : e <= d)
        THEN [m.edges[i] EXCEPT !.seam = TRUE] ELSE m.edges[i]]]

\* for e in edges: e.seam = True
SetSeam(m, es) ==
  [m EXCEPT !.edges =
     [i \in 1..Len(m.edges) |->
        IF i \in es THEN [m.edges[i] EXCEPT !.seam = TRUE] ELSE m.edges[i]]]

(***************************************************************************)
(* Point payloads and _load_points.                                        *)
(***************************************************************************)
IsPoint(item) == Len(item) = 3

\* a path without a file
NoFile == [kind |-> "missing", items |-> <<>>]

\* the loader without the branch for an object with a points list
LoadPointsListOnly(data) ==
  LET pts == SelectSeq(data.items, IsPoint)
  IN [ok |-> data.kind = "list" /\ Len(pts) >= 2, pts |-> pts]

\* main up to _load_points: ok is FALSE where the source raises
\* (FileNotFoundError for a missing file, ValueError from _load_points)
LoadPoints(data) ==
  LET pts == SelectSeq(data.items, IsPoint)
  IN [ok |-> data.kind \in {"list", "object"} /\ Len(pts) >= 2, pts |-> pts]

RECURSIVE SeqsUpTo(_, _)
SeqsUpTo(S, n) ==
  IF n = 0 THEN {<<>>}
  ELSE SeqsUpTo(S, n - 1) \cup
         {Append(s, x) : s \in {t \in SeqsUpTo(S, n - 1) : Len(t) = n - 1}, x \in S}

PayloadsOver(S) ==
  {[kind |-> kd, items |-> it] : kd \in {"list", "object"}, it \in SeqsUpTo(S \cup {Bad}, MaxPts)}
    \cup {[kind |-> "other", items |-> <<>>]}

(***************************************************************************)
(* _create_seam_preview_object                                             *)
(***************************************************************************)
\* the loop without the test for a vertex already used
RECURSIVE PreviewFoldNoDedup(_, _, _)
PreviewFoldNoDedup(me, seam_edges, acc) ==
  IF seam_edges = <<>> THEN acc
  ELSE LET e == me.edges[Head(seam_edges)]
           n == Len(acc.verts)
       IN PreviewFoldNoDedup(me, Tail(seam_edges),
            [used |-> acc.used \cup {<<e.a, n + 1>>, <<e.b, n + 2>>},
             verts |-> acc.verts \o <<me.verts[e.a], me.verts[e.b]>>,
             edges |-> Append(acc.edges, <<n + 1, n + 2>>)])

\* the loop over seam_edges: acc = [used, verts, edges], used the set of
\* pairs <<old index, new index>>
RECURSIVE PreviewFold(_, _, _)
PreviewFold(me, seam_edges, acc) ==
  IF seam_edges = <<>> THEN acc
  ELSE LET e == me.edges[Head(seam_edges)]
           Has(a, v) == \E pr \in a.used : pr[1] = v
           Use(a, v) ==
             IF Has(a, v) THEN a
             ELSE [a EXCEPT !.used = a.used \cup {<<v, Len(a.verts) + 1>>},
                            !.verts = Append(a.verts, me.verts[v])]
           a1 == Use(acc, e.a)
           a2 == Use(a1, e.b)
           New(v) == (CHOOSE pr \in a2.used : pr[1] = v)[2]
       IN PreviewFold(me, Tail(seam_edges),
                      [a2 EXCEPT !.edges = Append(a2.edges, <<New(e.a), New(e.b)>>)])

\* ok is FALSE where the source raises "No seam edges to preview"
CreateSeamPreviewObject(me, edge_indices) ==
  LET seam_edges == SelectSeq(edge_indices, LAMBDA ei : 1 <= ei /\ ei <= Len(me.edges))
      r == PreviewFold(me, seam_edges, [used |-> {}, verts |-> <<>>, edges |-> <<>>])
  IN [ok |-> seam_edges # <<>>, verts |-> r.verts, edges |-> r.edges]

NoPreview == [ok |-> FALSE, verts |-> <<>>, edges |-> <<>>]

\* the scan of me.edges for _get_edge_seam_flag
RECURSIVE SeamScan(_, _)
SeamScan(me, i) ==
  IF i > Len(me.edges) THEN <<>>
  ELSE (IF me.edges[i].seam THEN <<i>> ELSE <<>>) \o SeamScan(me, i + 1)

(***************************************************************************)
(* State.                                                                  *)
(***************************************************************************)
VARIABLES
  \* files
  model,            \* the mesh in the model file
  points_json,      \* the point payload given to the snap script: [kind, items]
  out_points_json,  \* the file the snap script writes
  i_points_json,    \* the point payload given to the imprint script
  \* run_seam_task
  tPc,              \* position in run_seam_task
  payload,          \* the task payload
  status,           \* task:<id> status
  progress,         \* task:<id> progress
  error,            \* task:<id> error
  result_files,     \* task:<id> result_files
  missing,          \* the files run_seam_task does not find
  \* snap_points_and_draw_curve.py
  sPc,              \* position in main
  axis_arg,         \* --axis
  origin_arg,       \* --points_origin
  max_snap,         \* --max_snap_dist
  chosen,           \* what _auto_choose returned
  sk,               \* number of the point the snap loop is at
  snapped,
  snap_hit,         \* for every snapped point, whether the query hit
  snap_missed,      \* missed of the snap loop
  dists_before,
  \* imprint_seams_from_points.py
  iPc,              \* position in main
  eps,              \* --vertex_snap_eps
  pts_local,        \* the loaded points
  bm,               \* the mesh being edited
  k,                \* number of the point the resolution loop is at
  point_verts,      \* vertex index of every resolved point
  point_src,        \* for every entry of point_verts, the point it came from
  inserted,
  reused,
  missed,
  ci,               \* i of the chain loop
  failed_connect,
  connect_log,      \* every connect_vert_pair call: [i, v0, v1, result, edges]
  me,               \* obj.data after bm.to_mesh(me)
  seam_edge_indices,
  preview,          \* the preview mesh
  report            \* the [IMPRINT] line

VARIABLES
  \* the database of ProjectService
  users,            \* rows of the table users
  projects,         \* rows of the table projects, in the order of insertion
  last_call,        \* the last call of the service and what it returned
  \* seam tasks side by side
  redis,            \* the hash stored under every key
  out_dirs,         \* the files of every directory under the results root
  runs              \* for every task id, its payload and its position

serviceVars == <<users, projects, last_call>>

runVars == <<redis, out_dirs, runs>>

\* task ids submit_seams has drawn
TaskIds == {"t1", "t2"}

\* f"task:{task_id}"
Key(task_id) == task_id

\* a single directory for all tasks
OutDirFlat(task_id) == "seams"

\* results_root / task_id / "seams"
OutDir(task_id) == task_id

\* the directories under the results root
DirNames == TaskIds \cup {"seams"}

NoHash == [status |-> "", progress |-> 0, error |-> "", result_files |-> <<>>]

NoCall == [op |-> "none", user_id |-> "", title |-> "", id |-> 0, ok |-> TRUE, result |-> <<>>]

ServiceFresh ==
  /\ users = {}
  /\ projects = <<>>
  /\ last_call = NoCall

RunsFresh ==
  /\ redis = [key \in TaskIds |-> NoHash]
  /\ out_dirs = [d \in DirNames |-> {}]
  /\ runs = [t \in TaskIds |-> [pc |-> "new", do_imprint |-> 0, missing |-> {}]]

imprintVars ==
  <<iPc, eps, pts_local, bm, k, point_verts, point_src, inserted, reused, missed,
    ci, failed_connect, connect_log, me, seam_edge_indices, preview, report>>

snapVars ==
  <<sPc, axis_arg, origin_arg, max_snap, chosen, sk, snapped, snap_hit, snap_missed,
    dists_before, out_points_json>>

taskVars == <<tPc, payload, status, progress, error, result_files, missing>>

\* what the imprint script leaves alone
imprintEnv == <<model, points_json, i_points_json, snapVars, taskVars, serviceVars, runVars>>

\* what the snap script leaves alone
snapEnv == <<model, points_json, i_points_json, imprintVars, taskVars, serviceVars, runVars>>

vars ==
  <<model, points_json, i_points_json, taskVars, snapVars, imprintVars, serviceVars,
    runVars>>

NoMesh == [verts |-> <<>>, edges |-> <<>>, faces |-> <<>>]
NoReport == [points |-> 0, inserted |-> 0, reused |-> 0, missed |-> 0,
             connect_failed |-> 0, seam_edges |-> 0]

\* positions a point of an imprint payload is drawn from
ImprintPoints == {Vec(0, 0, 0), Vec(2, 2, 0), Vec(1, 1, 0), Vec(2, 0, 1)}

\* --vertex_snap_eps, in lattice units
EpsChoices == {0, 1}

ImprintFresh ==
  /\ eps = 0
  /\ pts_local = <<>>
  /\ bm = NoMesh
  /\ k = 1
  /\ point_verts = <<>>
  /\ point_src = <<>>
  /\ inserted = 0
  /\ reused = 0
  /\ missed = 0
  /\ ci = 1
  /\ failed_connect = 0
  /\ connect_log = <<>>
  /\ me = NoMesh
  /\ seam_edge_indices = <<>>
  /\ preview = NoPreview
  /\ report = NoReport

(***************************************************************************)
(* snap_points_and_draw_curve.py: transforms and calibration               *)
(***************************************************************************)
\* one lattice step stands for 500 scene units: --max_snap_dist 1000.0
DefaultMaxSnapDist == 2
\* --dist_threshold 0.001, below the resolution of a length
DefaultDistThreshold == 0
\* --vertex_snap_eps 1e-6, below one lattice step
DefaultVertexSnapEps == 0

AxisChoices == {"auto", "identity", "three_to_blender_a", "three_to_blender_b"}
OriginChoices == {"auto", "as_is", "model_bbox_center"}

_tf_identity(p) == Vec(p[1], p[2], p[3])
_tf_three_to_blender_a(p) == Vec(p[1], -p[3], p[2])
_tf_three_to_blender_b(p) == Vec(p[1], p[3], -p[2])

\* _select_axis followed by the call of the transform
Tf(axis, p) ==
  CASE axis = "identity" -> _tf_identity(p)
    [] axis = "three_to_blender_a" -> _tf_three_to_blender_a(p)
    [] axis = "three_to_blender_b" -> _tf_three_to_blender_b(p)

SetMin(S) == CHOOSE x \in S : \A y \in S : x <= y
SetMax(S) == CHOOSE x \in S : \A y \in S : x >= y

\* (min_v + max_v) * 0.5; the meshes of the catalog have even extents
_get_bbox_center_world(m) ==
  IF m.verts = <<>> THEN Vec(0, 0, 0)
  ELSE LET C(d) == (SetMin({m.verts[i][d] : i \in 1..Len(m.verts)})
                      + SetMax({m.verts[i][d] : i \in 1..Len(m.verts)})) \div 2
       IN Vec(C(1), C(2), C(3))

_apply_origin(points, origin_mode, c) ==
  IF origin_mode = "as_is" THEN points
  ELSE [i \in 1..Len(points) |-> VAdd(points[i], c)]

\* a mean distance is the pair of dsum and cnt; cnt = 0 is float("inf")
Inf == [dsum |-> 0, cnt |-> 0]

\* mean a < mean b as floats
MeanLess(a, b) == a.cnt > 0 /\ (b.cnt = 0 \/ a.dsum * b.cnt < b.dsum * a.cnt)

\* _eval_mean_dist: the mean distance of the hits and the number of misses
RECURSIVE _eval_mean_dist(_, _, _)
_eval_mean_dist(m, points, maxs) ==
  IF points = <<>> THEN [mean |-> Inf, missed |-> 0]
  ELSE LET rest == _eval_mean_dist(m, Tail(points), maxs)
           loc == NearestLocWithin(m, Head(points), maxs)
       IN IF loc = None
          THEN [rest EXCEPT !.missed = rest.missed + 1]
          ELSE [rest EXCEPT !.mean = [dsum |-> rest.mean.dsum + Length(Head(points), loc),
                                      cnt |-> rest.mean.cnt + 1]]

AxisCandidates(axisArg) ==
  IF axisArg = "auto" THEN <<"identity", "three_to_blender_a", "three_to_blender_b">>
  ELSE <<axisArg>>

OriginCandidates(originArg) ==
  IF originArg = "auto" THEN <<"as_is", "model_bbox_center">> ELSE <<originArg>>

\* the candidates in the order of the two nested loops
Candidates(axisArg, originArg) ==
  LET A == AxisCandidates(axisArg)
      O == OriginCandidates(originArg)
  IN [n \in 1..(Len(A) * Len(O)) |->
        [axis |-> A[((n - 1) \div Len(O)) + 1], origin |-> O[((n - 1) % Len(O)) + 1]]]

\* pts of one candidate: lines 260 and 262
CandidatePoints(raw, c, cand) ==
  _apply_origin([i \in 1..Len(raw) |-> Tf(cand.axis, raw[i])], cand.origin, c)

\* the comparison with <= for the mean: a later candidate that ties wins
BetterOrEqual(ev, best) ==
  ev.missed < best.missed \/ (ev.missed = best.missed /\ ~MeanLess(best.mean, ev.mean))

\* line 264
Better(ev, best) ==
  ev.missed < best.missed \/ (ev.missed = best.missed /\ MeanLess(ev.mean, best.mean))

\* lines 258-272: the loop over the candidates
RECURSIVE AutoChooseLoop(_, _, _, _, _, _)
AutoChooseLoop(m, raw, c, cands, maxs, best) ==
  IF cands = <<>> THEN best
  ELSE LET pts == CandidatePoints(raw, c, Head(cands))
           ev == _eval_mean_dist(m, pts, maxs)
       IN AutoChooseLoop(m, raw, c, Tail(cands), maxs,
            IF Better(ev, best)
            THEN [axis |-> Head(cands).axis, origin |-> Head(cands).origin,
                  points |-> pts, mean |-> ev.mean, missed |-> ev.missed]
            ELSE best)

\* _auto_choose: lines 246-281
_auto_choose(m, raw, c, axisArg, originArg, maxs) ==
  AutoChooseLoop(m, raw, c, Candidates(axisArg, originArg), maxs,
                 [axis |-> "identity", origin |-> "as_is", points |-> raw,
                  mean |-> Inf, missed |-> 0])

NoChoice == [axis |-> "", origin |-> "", points |-> <<>>, mean |-> Inf, missed |-> 0]

\* _stats; -1 stands for None
_stats(values) ==
  IF values = <<>> THEN [min |-> -1, max |-> -1, mean |-> Inf]
  ELSE [min |-> SetMin(Range(values)), max |-> SetMax(Range(values)),
        mean |-> [dsum |-> SeqSum(values), cnt |-> Len(values)]]

SnapFresh ==
  /\ axis_arg = ""
  /\ origin_arg = ""
  /\ max_snap = 0
  /\ chosen = NoChoice
  /\ sk = 1
  /\ snapped = <<>>
  /\ snap_hit = <<>>
  /\ snap_missed = 0
  /\ dists_before = <<>>
  /\ out_points_json = NoFile

(***************************************************************************)
(* snap_points_and_draw_curve.py: main                                     *)
(***************************************************************************)
\* lines 285-302 when the points file is missing or _load_points raises
SnapLoadFail ==
  /\ sPc = "start"
  /\ ~LoadPoints(points_json).ok
  /\ sPc' = "failed"
  /\ UNCHANGED <<snapEnv, axis_arg, origin_arg, max_snap, chosen, sk, snapped, snap_hit,
                 snap_missed, dists_before, out_points_json>>

\* lines 285-314: import, BVH, load, bounding box, _auto_choose
SnapCalibrate(axisArg, originArg, maxSnapArg) ==
  /\ sPc = "start"
  /\ LoadPoints(points_json).ok
  /\ axis_arg' = axisArg
  /\ origin_arg' = originArg
  /\ max_snap' = maxSnapArg
  /\ chosen' = _auto_choose(model, LoadPoints(points_json).pts,
                            _get_bbox_center_world(model), axisArg, originArg, maxSnapArg)
  /\ sPc' = "snap"
  /\ UNCHANGED <<snapEnv, sk, snapped, snap_hit, snap_missed, dists_before,
                 out_points_json>>

\* lines 320-321, 326-329: the query hits, the point moves to the surface
SnapPointHit ==
  /\ sPc = "snap"
  /\ sk <= Len(chosen.points)
  /\ LET p == chosen.points[sk]
         loc == NearestLocWithin(model, p, max_snap)
     IN /\ loc # None
        /\ dists_before' = Append(dists_before, Length(p, loc))
        /\ snapped' = Append(snapped, loc)
  /\ snap_hit' = Append(snap_hit, TRUE)
  /\ sk' = sk + 1
  /\ UNCHANGED <<snapEnv, sPc, axis_arg, origin_arg, max_snap, chosen, snap_missed,
                 out_points_json>>

\* the missed point is counted and left out of the output
SnapPointMissSkipped ==
  /\ sPc = "snap"
  /\ sk <= Len(chosen.points)
  /\ NearestLocWithin(model, chosen.points[sk], max_snap) = None
  /\ snap_missed' = snap_missed + 1
  /\ snap_hit' = Append(snap_hit, FALSE)
  /\ sk' = sk + 1
  /\ UNCHANGED <<snapEnv, sPc, axis_arg, origin_arg, max_snap, chosen, dists_before,
                 out_points_json, snapped>>

\* lines 320-325: the query misses, the point stays where it is
SnapPointMiss ==
  /\ sPc = "snap"
  /\ sk <= Len(chosen.points)
  /\ NearestLocWithin(model, chosen.points[sk], max_snap) = None
  /\ snap_missed' = snap_missed + 1
  /\ snapped' = Append(snapped, chosen.points[sk])
  /\ snap_hit' = Append(snap_hit, FALSE)
  /\ sk' = sk + 1
  /\ UNCHANGED <<snapEnv, sPc, axis_arg, origin_arg, max_snap, chosen, dists_before,
                 out_points_json>>

\* the points list holds the hits only
OutPayloadHitsOnly ==
  [kind |-> "object",
   items |-> SelectSeq([i \in 1..Len(snapped) |-> IF snap_hit[i] THEN snapped[i] ELSE Bad],
                       IsPoint),
   schema_version |-> 1,
   chosen |-> [axis |-> chosen.axis, points_origin |-> chosen.origin,
               bbox_center_world |-> _get_bbox_center_world(model),
               mean_dist_before_eval |-> chosen.mean, missed_eval |-> chosen.missed],
   snap |-> [max_snap_dist |-> max_snap, dist_threshold |-> DefaultDistThreshold,
             missed |-> snap_missed,
             stats_before |-> [min |-> _stats(dists_before).min,
                               max |-> _stats(dists_before).max,
                               mean |-> _stats(dists_before).mean,
                               count |-> Len(dists_before)],
             over_threshold |->
               Cardinality({i \in 1..Len(dists_before) :
                              dists_before[i] > DefaultDistThreshold})]]

\* lines 347-365: the report written next to the snapped points
OutPayload ==
  [kind |-> "object",
   items |-> snapped,
   schema_version |-> 1,
   chosen |-> [axis |-> chosen.axis, points_origin |-> chosen.origin,
               bbox_center_world |-> _get_bbox_center_world(model),
               mean_dist_before_eval |-> chosen.mean, missed_eval |-> chosen.missed],
   snap |-> [max_snap_dist |-> max_snap, dist_threshold |-> DefaultDistThreshold,
             missed |-> snap_missed,
             stats_before |-> [min |-> _stats(dists_before).min,
                               max |-> _stats(dists_before).max,
                               mean |-> _stats(dists_before).mean,
                               count |-> Len(dists_before)],
             over_threshold |->
               Cardinality({i \in 1..Len(dists_before) :
                              dists_before[i] > DefaultDistThreshold})]]

\* lines 331-380: statistics, snapped_points.json, curve, blend file
SnapWrite ==
  /\ sPc = "snap"
  /\ sk > Len(chosen.points)
  /\ out_points_json' = OutPayload
  /\ sPc' = "done"
  /\ UNCHANGED <<snapEnv, axis_arg, origin_arg, max_snap, chosen, sk, snapped, snap_hit,
                 snap_missed, dists_before>>

SnapSteps ==
  \/ SnapLoadFail
  \/ SnapPointHit
  \/ SnapPointMiss
  \/ SnapWrite

(***************************************************************************)
(* imprint_seams_from_points.py: main                                      *)
(***************************************************************************)
\* lines 239-270 when _load_points raises: the script ends with an error
ImprintLoadFail ==
  /\ iPc = "start"
  /\ ~LoadPoints(i_points_json).ok
  /\ iPc' = "failed"
  /\ UNCHANGED <<imprintEnv, eps, pts_local, bm, k, point_verts, point_src,
                 inserted, reused, missed, ci, failed_connect, connect_log, me,
                 seam_edge_indices, preview, report>>

\* lines 239-270: import the model, load the points, bm.from_mesh(me)
ImprintLoad(epsArg) ==
  /\ iPc = "start"
  /\ LoadPoints(i_points_json).ok
  /\ iPc' = "resolve"
  /\ eps' = epsArg
  /\ pts_local' = LoadPoints(i_points_json).pts
  /\ bm' = model
  /\ UNCHANGED <<imprintEnv, k, point_verts, point_src, inserted, reused,
                 missed, ci, failed_connect, connect_log, me, seam_edge_indices,
                 preview, report>>

\* a stricter test than the source's, for comparison
ReusableVertsStrict(m, p, e) == {vidx \in NearestVerts(m, p) : D2(p, m.verts[vidx]) < e * e}

\* the vertex index is built once, from the mesh as imported
ReusableVertsStale(m, p, e) ==
  {vidx \in 1..Len(model.verts) :
     /\ \A j \in 1..Len(model.verts) : D2(p, m.verts[vidx]) <= D2(p, m.verts[j])
     /\ D2(p, m.verts[vidx]) <= e * e}

\* line 274-275: the vertices kd.find may answer with that pass
\* vdist is not None and float(vdist) <= eps
ReusableVerts(m, p, e) == {vidx \in NearestVerts(m, p) : D2(p, m.verts[vidx]) <= e * e}

CanReuse(m, p, e) == ReusableVerts(m, p, e) # {}

\* lines 272-279: the point reuses the nearest vertex
ResolveReuse ==
  /\ iPc = "resolve"
  /\ k <= Len(pts_local)
  /\ \E vidx \in ReusableVerts(bm, pts_local[k], eps) :
       point_verts' = Append(point_verts, vidx)
  /\ point_src' = Append(point_src, k)
  /\ reused' = reused + 1
  /\ k' = k + 1
  /\ UNCHANGED <<imprintEnv, iPc, eps, pts_local, bm, inserted, missed, ci,
                 failed_connect, connect_log, me, seam_edge_indices, preview, report>>

\* lines 281-300: the point is projected and the hit face poked
ResolveInsert ==
  /\ iPc = "resolve"
  /\ k <= Len(pts_local)
  /\ ~CanReuse(bm, pts_local[k], eps)
  /\ LET loc == NearestLoc(bm, pts_local[k])
     IN /\ loc # None
        /\ \E face_index \in HitFaces(bm, loc) :
             bm' = InsertVertexOnFace(bm, face_index, loc)
  /\ point_verts' = Append(point_verts, Len(bm.verts) + 1)
  /\ point_src' = Append(point_src, k)
  /\ inserted' = inserted + 1
  /\ k' = k + 1
  /\ UNCHANGED <<imprintEnv, iPc, eps, pts_local, reused, missed, ci,
                 failed_connect, connect_log, me, seam_edge_indices, preview, report>>

\* the point without a hit is left out and not counted
ResolveMissUncounted ==
  /\ iPc = "resolve"
  /\ k <= Len(pts_local)
  /\ ~CanReuse(bm, pts_local[k], eps)
  /\ NearestLoc(bm, pts_local[k]) = None
  /\ k' = k + 1
  /\ UNCHANGED <<imprintEnv, iPc, eps, pts_local, bm, point_verts, point_src,
                 inserted, reused, missed, ci, failed_connect, connect_log, me,
                 seam_edge_indices, preview, report>>

\* lines 283-295: no hit, the point is counted missed and left out (a hit
\* always names a face of bm, so lines 288-295 never count)
ResolveMiss ==
  /\ iPc = "resolve"
  /\ k <= Len(pts_local)
  /\ ~CanReuse(bm, pts_local[k], eps)
  /\ NearestLoc(bm, pts_local[k]) = None
  /\ missed' = missed + 1
  /\ k' = k + 1
  /\ UNCHANGED <<imprintEnv, iPc, eps, pts_local, bm, point_verts, point_src,
                 inserted, reused, ci, failed_connect, connect_log, me,
                 seam_edge_indices, preview, report>>

\* line 272 exhausted, line 302
ResolveDone ==
  /\ iPc = "resolve"
  /\ k > Len(pts_local)
  /\ iPc' = "chain"
  /\ UNCHANGED <<imprintEnv, eps, pts_local, bm, k, point_verts, point_src,
                 inserted, reused, missed, ci, failed_connect, connect_log, me,
                 seam_edge_indices, preview, report>>

InChain == iPc = "chain" /\ ci <= Len(point_verts) - 1

LogEntry(res, es) ==
  [i |-> ci, v0 |-> point_verts[ci], v1 |-> point_verts[ci + 1], result |-> res,
   edges |-> es]

\* the pair is handed to the host and counted as a failure
ChainSkipSameCounted ==
  /\ InChain
  /\ point_verts[ci] = point_verts[ci + 1]
  /\ connect_log' = Append(connect_log, LogEntry("empty", {}))
  /\ failed_connect' = failed_connect + 1
  /\ ci' = ci + 1
  /\ UNCHANGED <<imprintEnv, iPc, eps, pts_local, bm, k, point_verts,
                 point_src, inserted, reused, missed, me, seam_edge_indices, preview,
                 report>>

\* lines 305-308: both points resolved to one vertex
ChainSkipSame ==
  /\ InChain
  /\ point_verts[ci] = point_verts[ci + 1]
  /\ ci' = ci + 1
  /\ UNCHANGED <<imprintEnv, iPc, eps, pts_local, bm, k, point_verts,
                 point_src, inserted, reused, missed, failed_connect, connect_log, me,
                 seam_edge_indices, preview, report>>

\* lines 309-316: connect_vert_pair returns edges, each is flagged
ChainConnect ==
  /\ InChain
  /\ point_verts[ci] # point_verts[ci + 1]
  /\ \E r \in ConnectPaths(bm, point_verts[ci], point_verts[ci + 1], MaxPathLen) :
       /\ bm' = SetSeam(r.m, r.es)
       /\ connect_log' = Append(connect_log, LogEntry("edges", r.es))
  /\ ci' = ci + 1
  /\ UNCHANGED <<imprintEnv, iPc, eps, pts_local, k, point_verts, point_src,
                 inserted, reused, missed, failed_connect, me, seam_edge_indices,
                 preview, report>>

\* lines 309-314: connect_vert_pair returns no edge
ChainConnectEmpty ==
  /\ InChain
  /\ point_verts[ci] # point_verts[ci + 1]
  /\ connect_log' = Append(connect_log, LogEntry("empty", {}))
  /\ failed_connect' = failed_connect + 1
  /\ ci' = ci + 1
  /\ UNCHANGED <<imprintEnv, iPc, eps, pts_local, bm, k, point_verts,
                 point_src, inserted, reused, missed, me, seam_edge_indices, preview,
                 report>>

\* the exception of connect_vert_pair is not caught and ends the script
ChainConnectRaiseAbort ==
  /\ InChain
  /\ point_verts[ci] # point_verts[ci + 1]
  /\ connect_log' = Append(connect_log, LogEntry("raise", {}))
  /\ iPc' = "failed"
  /\ UNCHANGED <<imprintEnv, eps, pts_local, bm, k, point_verts, point_src,
                 inserted, reused, missed, ci, failed_connect, me, seam_edge_indices,
                 preview, report>>

\* lines 309-310, 317-318: connect_vert_pair raises
ChainConnectRaise ==
  /\ InChain
  /\ point_verts[ci] # point_verts[ci + 1]
  /\ connect_log' = Append(connect_log, LogEntry("raise", {}))
  /\ failed_connect' = failed_connect + 1
  /\ ci' = ci + 1
  /\ UNCHANGED <<imprintEnv, iPc, eps, pts_local, bm, k, point_verts,
                 point_src, inserted, reused, missed, me, seam_edge_indices, preview,
                 report>>

\* lines 320-327: bm.to_mesh(me) and the scan for seam-flagged edges
ImprintWriteBack ==
  /\ iPc = "chain"
  /\ ci > Len(point_verts) - 1
  /\ me' = bm
  /\ seam_edge_indices' = SeamScan(bm, 1)
  /\ iPc' = "preview"
  /\ UNCHANGED <<imprintEnv, eps, pts_local, bm, k, point_verts, point_src,
                 inserted, reused, missed, ci, failed_connect, connect_log, preview,
                 report>>

Report ==
  [points |-> Len(pts_local), inserted |-> inserted, reused |-> reused,
   missed |-> missed, connect_failed |-> failed_connect,
   seam_edges |-> Len(seam_edge_indices)]

\* the preview is cut out of the source mesh: the seam flags it shows are
\* cleared
ImprintPreviewConsuming ==
  /\ iPc = "preview"
  /\ seam_edge_indices # <<>>
  /\ preview' = CreateSeamPreviewObject(me, seam_edge_indices)
  /\ me' = [me EXCEPT !.edges = [i \in 1..Len(me.edges) |-> [me.edges[i] EXCEPT !.seam = FALSE]]]
  /\ report' = Report
  /\ iPc' = IF CreateSeamPreviewObject(me, seam_edge_indices).ok THEN "done" ELSE "failed"
  /\ UNCHANGED <<imprintEnv, eps, pts_local, bm, k, point_verts, point_src,
                 inserted, reused, missed, ci, failed_connect, connect_log,
                 seam_edge_indices>>

\* lines 329-355 with seam edges: the preview is built, the report printed,
\* the file saved
ImprintPreview ==
  /\ iPc = "preview"
  /\ seam_edge_indices # <<>>
  /\ preview' = CreateSeamPreviewObject(me, seam_edge_indices)
  /\ report' = Report
  /\ iPc' = IF CreateSeamPreviewObject(me, seam_edge_indices).ok THEN "done" ELSE "failed"
  /\ UNCHANGED <<imprintEnv, eps, pts_local, bm, k, point_verts, point_src,
                 inserted, reused, missed, ci, failed_connect, connect_log, me,
                 seam_edge_indices>>

\* lines 329, 339-355 without seam edges: no preview, the report printed, the
\* file saved
ImprintNoPreview ==
  /\ iPc = "preview"
  /\ seam_edge_indices = <<>>
  /\ report' = Report
  /\ iPc' = "done"
  /\ UNCHANGED <<imprintEnv, eps, pts_local, bm, k, point_verts, point_src,
                 inserted, reused, missed, ci, failed_connect, connect_log, me,
                 seam_edge_indices, preview>>

ImprintSteps ==
  \/ ResolveReuse
  \/ ResolveInsert
  \/ ResolveMiss
  \/ ResolveDone
  \/ ChainSkipSame
  \/ ChainConnect
  \/ ChainConnectEmpty
  \/ ChainConnectRaise
  \/ ImprintWriteBack
  \/ ImprintPreview
  \/ ImprintNoPreview

(***************************************************************************)
(* run_seam_task                                                           *)
(***************************************************************************)
TaskFresh ==
  /\ payload = [axis |-> "", points_origin |-> "", do_imprint |-> 0]
  /\ status = ""
  /\ progress = 0
  /\ error = ""
  /\ result_files = <<>>
  /\ missing = {}

\* what run_seam_task itself leaves alone
taskEnv ==
  <<model, points_json, axis_arg, origin_arg, max_snap, chosen, sk, snapped, snap_hit,
    snap_missed, dists_before, out_points_json, eps, pts_local, bm, k, point_verts,
    point_src, inserted, reused, missed, ci, failed_connect, connect_log, me,
    seam_edge_indices, preview, report, serviceVars, runVars>>

\* the files lines 58-65 look for
NeededFiles ==
  {"model", "points", "snap_script"}
    \cup (IF payload.do_imprint # 0 THEN {"imprint_script"} ELSE {})

File(type, name) == [preview_image_url |-> "", type |-> type, url |-> name]

\* lines 108-124
SnapFiles ==
  <<File("blend", "curve_snapped.blend"), File("json", "snapped_points.json"),
    File("log", "blender_snap.log")>>

\* lines 151-167
ImprintFiles ==
  <<File("blend", "seam_imprinted_preview.blend"), File("log", "blender_imprint.log")>>

\* lines 58-65, 180-188: a file is missing, the task fails
TaskStartFail ==
  /\ tPc = "queued"
  /\ NeededFiles \cap missing # {}
  /\ status' = "failed"
  /\ error' = "FileNotFoundError"
  /\ tPc' = "failed"
  /\ UNCHANGED <<taskEnv, payload, progress, result_files, missing, sPc, iPc,
                 i_points_json>>

\* lines 41-98: the checks pass, progress 10, the snap script is started
TaskStart ==
  /\ tPc = "queued"
  /\ NeededFiles \cap missing = {}
  /\ status' = "processing"
  /\ progress' = 10
  /\ sPc' = "start"
  /\ tPc' = "snap"
  /\ UNCHANGED <<taskEnv, payload, error, result_files, missing, iPc, i_points_json>>

\* the return code of the snap run is not looked at
TaskSnapCrashIgnored ==
  /\ tPc = "snap"
  /\ sPc \notin {"done", "failed"}
  /\ sPc' = "crashed"
  /\ status' = "processing"
  /\ progress' = 50
  /\ tPc' = "post_snap"
  /\ UNCHANGED <<taskEnv, payload, error, result_files, missing, iPc, i_points_json>>

\* lines 30-36, 180-188: Blender ends with a code other than 0 while the
\* snap script runs
TaskSnapCrash ==
  /\ tPc = "snap"
  /\ sPc \notin {"done", "failed"}
  /\ sPc' = "crashed"
  /\ status' = "failed"
  /\ error' = "Blender failed"
  /\ tPc' = "failed"
  /\ UNCHANGED <<taskEnv, payload, progress, result_files, missing, iPc, i_points_json>>

\* lines 30-36, 100-106: Blender ends with code 0 (also after an exception
\* of the script, no --python-exit-code is given), progress 50
TaskSnapReturned ==
  /\ tPc = "snap"
  /\ sPc \in {"done", "failed"}
  /\ status' = "processing"
  /\ progress' = 50
  /\ tPc' = "post_snap"
  /\ UNCHANGED <<taskEnv, payload, error, result_files, missing, sPc, iPc,
                 i_points_json>>

\* lines 126-149: the imprint script is started on snapped_points.json
TaskRunImprint ==
  /\ tPc = "post_snap"
  /\ payload.do_imprint # 0
  /\ i_points_json' = out_points_json
  /\ iPc' = "start"
  /\ tPc' = "imprint"
  /\ UNCHANGED <<taskEnv, payload, status, progress, error, result_files, missing, sPc>>

\* the handler of the failure also writes the last progress value
TaskImprintCrashFullProgress ==
  /\ tPc = "imprint"
  /\ iPc \notin {"done", "failed"}
  /\ iPc' = "crashed"
  /\ status' = "failed"
  /\ progress' = 100
  /\ error' = "Blender failed"
  /\ tPc' = "failed"
  /\ UNCHANGED <<taskEnv, payload, result_files, missing, sPc, i_points_json>>

\* lines 30-36, 180-188: Blender ends with a code other than 0 while the
\* imprint script runs
TaskImprintCrash ==
  /\ tPc = "imprint"
  /\ iPc \notin {"done", "failed"}
  /\ iPc' = "crashed"
  /\ status' = "failed"
  /\ error' = "Blender failed"
  /\ tPc' = "failed"
  /\ UNCHANGED <<taskEnv, payload, progress, result_files, missing, sPc, i_points_json>>

\* lines 126, 169-178 without imprint
TaskCompleteSnapOnly ==
  /\ tPc = "post_snap"
  /\ payload.do_imprint = 0
  /\ status' = "completed"
  /\ progress' = 100
  /\ result_files' = SnapFiles
  /\ tPc' = "done"
  /\ UNCHANGED <<taskEnv, payload, error, missing, sPc, iPc, i_points_json>>

\* the imprint descriptors are appended instead of inserted in front
TaskCompleteImprintAppended ==
  /\ tPc = "imprint"
  /\ iPc \in {"done", "failed"}
  /\ status' = "completed"
  /\ progress' = 100
  /\ result_files' = SnapFiles \o ImprintFiles
  /\ tPc' = "done"
  /\ UNCHANGED <<taskEnv, payload, error, missing, sPc, iPc, i_points_json>>

\* lines 151-178 after the imprint script
TaskCompleteImprint ==
  /\ tPc = "imprint"
  /\ iPc \in {"done", "failed"}
  /\ status' = "completed"
  /\ progress' = 100
  /\ result_files' = ImprintFiles \o SnapFiles
  /\ tPc' = "done"
  /\ UNCHANGED <<taskEnv, payload, error, missing, sPc, iPc, i_points_json>>

(***************************************************************************)
(* One seam task, from submit_seams to its end.                            *)
(***************************************************************************)
\* positions a point of an uploaded payload is drawn from
TaskPoints == {Vec(0, 0, 0), Vec(2, 2, 0), Vec(5, 0, 0)}

TaskMeshes == {QuadMesh, WireMesh}

TaskPayloads == {[kind |-> "list", items |-> it] : it \in SeqsUpTo(TaskPoints, MaxPts)}

\* the state submit_seams leaves: status processing, progress 0
Init ==
  /\ model \in TaskMeshes
  /\ points_json \in TaskPayloads
  /\ i_points_json = NoFile
  /\ tPc = "queued"
  /\ payload \in [axis : AxisChoices, points_origin : OriginChoices, do_imprint : {0, 1}]
  /\ status = "processing"
  /\ progress = 0
  /\ error = ""
  /\ result_files = <<>>
  /\ missing \in {{}, {"model"}, {"points"}, {"snap_script"}, {"imprint_script"}}
  /\ sPc = "idle"
  /\ SnapFresh
  /\ iPc = "idle"
  /\ ImprintFresh
  /\ ServiceFresh
  /\ RunsFresh

Next ==
  \/ TaskStartFail
  \/ TaskStart
  \/ SnapCalibrate(payload.axis, payload.points_origin, DefaultMaxSnapDist)
  \/ SnapSteps
  \/ TaskSnapCrash
  \/ TaskSnapReturned
  \/ TaskRunImprint
  \/ ImprintLoad(DefaultVertexSnapEps)
  \/ ImprintLoadFail
  \/ ImprintSteps
  \/ TaskImprintCrash
  \/ TaskCompleteSnapOnly
  \/ TaskCompleteImprint

Spec == Init /\ [][Next]_vars

(***************************************************************************)
(* The snap script run from the command line.                              *)
(***************************************************************************)
\* positions a point of a snap payload is drawn from
SnapPoints == {Vec(0, 0, 0), Vec(1, 0, -1), Vec(0, 0, 3), Vec(5, 0, 0)}

\* --max_snap_dist, in lattice units
MaxSnapChoices == {2, 3}

\* TriMesh has the surface of QuadMesh, the snap script reads nothing else
SnapMeshes == {QuadMesh, WireMesh}

SnapPayloads == {[kind |-> "list", items |-> it] : it \in SeqsUpTo(SnapPoints, MaxPts)}

InitSnap ==
  /\ model \in SnapMeshes
  /\ points_json \in SnapPayloads
  /\ i_points_json = NoFile
  /\ sPc = "start"
  /\ SnapFresh
  /\ iPc = "idle"
  /\ ImprintFresh
  /\ ServiceFresh
  /\ RunsFresh
  /\ tPc = "none"
  /\ TaskFresh

NextSnap ==
  \/ \E a \in AxisChoices, o \in OriginChoices, ms \in MaxSnapChoices :
       SnapCalibrate(a, o, ms)
  \/ SnapSteps

SpecSnap == InitSnap /\ [][NextSnap]_vars

(***************************************************************************)
(* The snap script run with --axis auto --points_origin auto on points of  *)
(* the surface.                                                            *)
(***************************************************************************)
SnapAutoPoints == {Vec(0, 0, 0), Vec(0, 2, 0), Vec(2, 2, 0)}

InitSnapAuto ==
  /\ model \in SnapMeshes
  /\ points_json \in {[kind |-> "list", items |-> it] : it \in SeqsUpTo(SnapAutoPoints, MaxPts)}
  /\ i_points_json = NoFile
  /\ sPc = "start"
  /\ SnapFresh
  /\ iPc = "idle"
  /\ ImprintFresh
  /\ ServiceFresh
  /\ RunsFresh
  /\ tPc = "none"
  /\ TaskFresh

NextSnapAuto ==
  \/ \E ms \in MaxSnapChoices : SnapCalibrate("auto", "auto", ms)
  \/ SnapSteps

SpecSnapAuto == InitSnapAuto /\ [][NextSnapAuto]_vars

(***************************************************************************)
(* The imprint script run from the command line.                           *)
(***************************************************************************)
InitImprint ==
  /\ model \in MeshCatalog
  /\ i_points_json \in PayloadsOver(ImprintPoints)
  /\ points_json = NoFile
  /\ iPc = "start"
  /\ ImprintFresh
  /\ ServiceFresh
  /\ RunsFresh
  /\ sPc = "idle"
  /\ SnapFresh
  /\ tPc = "none"
  /\ TaskFresh

NextImprint ==
  \/ \E e \in EpsChoices : ImprintLoad(e)
  \/ ImprintLoadFail
  \/ ImprintSteps

SpecImprint == InitImprint /\ [][NextImprint]_vars

(***************************************************************************)
(* The imprint script run on a model whose mesh carries seam flags when it *)
(* is imported: main reads use_seam of every edge of obj.data and never    *)
(* clears a flag.                                                          *)
(***************************************************************************)
\* QuadMesh with its edge 3-4 flagged as a seam
SeamedQuad ==
  [QuadMesh EXCEPT !.edges = [i \in 1..Len(QuadMesh.edges) |->
                                IF i = 3 THEN [QuadMesh.edges[i] EXCEPT !.seam = TRUE]
                                ELSE QuadMesh.edges[i]]]

SeamedPoints == {Vec(0, 0, 0), Vec(2, 0, 0), Vec(1, 1, 0)}

InitImprintSeamed ==
  /\ model \in {SeamedQuad, WireMesh}
  /\ i_points_json \in PayloadsOver(SeamedPoints)
  /\ points_json = NoFile
  /\ iPc = "start"
  /\ ImprintFresh
  /\ ServiceFresh
  /\ RunsFresh
  /\ sPc = "idle"
  /\ SnapFresh
  /\ tPc = "none"
  /\ TaskFresh

SpecImprintSeamed == InitImprintSeamed /\ [][NextImprint]_vars

(***************************************************************************)
(* One seam task on a model file whose mesh has no vertex, edge or face    *)
(* (_get_bbox_center_world provides for it at lines 184-185), or on the    *)
(* quad.                                                                   *)
(***************************************************************************)
EmptyMesh == [verts |-> <<>>, edges |-> <<>>, faces |-> <<>>]

EmptyTaskPoints == {Vec(0, 0, 0), Vec(2, 2, 0)}

InitEmptyMesh ==
  /\ model \in {EmptyMesh, QuadMesh}
  /\ points_json \in {[kind |-> "list", items |-> it] : it \in SeqsUpTo(EmptyTaskPoints, MaxPts)}
  /\ i_points_json = NoFile
  /\ tPc = "queued"
  /\ payload \in [axis : {"identity"}, points_origin : {"as_is", "model_bbox_center"},
                  do_imprint : {0, 1}]
  /\ status = "processing"
  /\ progress = 0
  /\ error = ""
  /\ result_files = <<>>
  /\ missing \in {{}, {"model"}}
  /\ sPc = "idle"
  /\ SnapFresh
  /\ iPc = "idle"
  /\ ImprintFresh
  /\ ServiceFresh
  /\ RunsFresh

SpecEmptyMesh == InitEmptyMesh /\ [][Next]_vars

(***************************************************************************)
(* Two seam tasks side by side: submit_seams and run_seam_task of each,    *)
(* seen by what they write to Redis and under the results root.  A Blender *)
(* run is one step, with the files it leaves in the directory it is given.  *)
(***************************************************************************)
\* what the tasks side by side leave alone
runEnv ==
  <<model, points_json, i_points_json, taskVars, snapVars, imprintVars, serviceVars>>

\* redis_client.hset(f"task:{task_id}", mapping=...)
HSet(task_id, mapping) ==
  [redis EXCEPT ![Key(task_id)] =
     [f \in DOMAIN @ |-> IF f \in DOMAIN mapping THEN mapping[f] ELSE @[f]]]

\* files written to the out_dir of the task
WriteFiles(task_id, names) ==
  [out_dirs EXCEPT ![OutDir(task_id)] = @ \cup names]

At(task_id, pc) == [runs EXCEPT ![task_id].pc = pc]

\* seams.py 46-93: the upload is stored, the hash created, the task queued
Submit(t, flag, miss) ==
  /\ runs[t].pc = "new"
  /\ out_dirs' = WriteFiles(t, {"seam_points.json", "model.glb"})
  /\ redis' = HSet(t, [status |-> "processing", progress |-> 0])
  /\ runs' = [runs EXCEPT ![t] = [pc |-> "queued", do_imprint |-> flag, missing |-> miss]]
  /\ UNCHANGED runEnv

\* seam_tasks.py 58-65, 180-188
RunStartFail(t) ==
  /\ runs[t].pc = "queued"
  /\ runs[t].missing # {}
  /\ redis' = HSet(t, [status |-> "failed", error |-> "FileNotFoundError"])
  /\ runs' = At(t, "failed")
  /\ UNCHANGED <<runEnv, out_dirs>>

\* seam_tasks.py 58-77
RunStart(t) ==
  /\ runs[t].pc = "queued"
  /\ runs[t].missing = {}
  /\ redis' = HSet(t, [status |-> "processing", progress |-> 10])
  /\ runs' = At(t, "snap")
  /\ UNCHANGED <<runEnv, out_dirs>>

\* seam_tasks.py 79-98, 30-36, 180-188: the snap run exits non-zero
RunSnapCrash(t) ==
  /\ runs[t].pc = "snap"
  /\ out_dirs' = WriteFiles(t, {"blender_snap.log"})
  /\ redis' = HSet(t, [status |-> "failed", error |-> "Blender failed"])
  /\ runs' = At(t, "failed")
  /\ UNCHANGED runEnv

\* seam_tasks.py 79-106: the snap run exits 0, with or without its output
RunSnapReturned(t) ==
  /\ runs[t].pc = "snap"
  /\ \E written \in {{}, {"snapped_points.json", "curve_snapped.blend"}} :
       out_dirs' = WriteFiles(t, written \cup {"blender_snap.log"})
  /\ redis' = HSet(t, [status |-> "processing", progress |-> 50])
  /\ runs' = At(t, "post_snap")
  /\ UNCHANGED runEnv

\* seam_tasks.py 126-149, 30-36, 180-188: the imprint run exits non-zero
RunImprintCrash(t) ==
  /\ runs[t].pc = "post_snap"
  /\ runs[t].do_imprint # 0
  /\ out_dirs' = WriteFiles(t, {"blender_imprint.log"})
  /\ redis' = HSet(t, [status |-> "failed", error |-> "Blender failed"])
  /\ runs' = At(t, "failed")
  /\ UNCHANGED runEnv

\* seam_tasks.py 126-178: the imprint run exits 0, the task completes
RunCompleteImprint(t) ==
  /\ runs[t].pc = "post_snap"
  /\ runs[t].do_imprint # 0
  /\ \E written \in {{}, {"seam_imprinted_preview.blend"}} :
       out_dirs' = WriteFiles(t, written \cup {"blender_imprint.log"})
  /\ redis' = HSet(t, [status |-> "completed", progress |-> 100,
                       result_files |-> ImprintFiles \o SnapFiles])
  /\ runs' = At(t, "done")
  /\ UNCHANGED runEnv

\* seam_tasks.py 126, 169-178 without imprint
RunCompleteSnapOnly(t) ==
  /\ runs[t].pc = "post_snap"
  /\ runs[t].do_imprint = 0
  /\ redis' = HSet(t, [status |-> "completed", progress |-> 100, result_files |-> SnapFiles])
  /\ runs' = At(t, "done")
  /\ UNCHANGED <<runEnv, out_dirs>>

InitRuns ==
  /\ model = QuadMesh
  /\ points_json = NoFile
  /\ i_points_json = NoFile
  /\ sPc = "idle"
  /\ SnapFresh
  /\ iPc = "idle"
  /\ ImprintFresh
  /\ ServiceFresh
  /\ RunsFresh
  /\ tPc = "none"
  /\ TaskFresh

NextRuns ==
  \E t \in TaskIds :
    \/ \E flag \in {0, 1}, miss \in {{}, {"snap_script"}} : Submit(t, flag, miss)
    \/ RunStartFail(t)
    \/ RunStart(t)
    \/ RunSnapCrash(t)
    \/ RunSnapReturned(t)
    \/ RunImprintCrash(t)
    \/ RunCompleteImprint(t)
    \/ RunCompleteSnapOnly(t)

SpecRuns == InitRuns /\ [][NextRuns]_vars

(***************************************************************************)
(* ProjectService on one database; every call has a session of its own, so *)
(* a commit that fails leaves the tables as they were.                     *)
(***************************************************************************)
\* most rows of the table projects
MaxProjects == 3

UserIds == {"u1", "u2"}
Titles == {"a", "b"}

\* the e-mail of every mock user; the column is unique
DemoEmail == "demo@example.com"

\* limit: int = 100
DefaultLimit == 100

\* _ensure_user_exists: ok is FALSE where the commit raises IntegrityError
\* (users.id is the primary key, users.email is unique)
_ensure_user_exists(user_id) ==
  IF \E r \in users : r.id = user_id THEN [ok |-> TRUE, users |-> users]
  ELSE IF \E r \in users : r.email = DemoEmail THEN [ok |-> FALSE, users |-> users]
  ELSE [ok |-> TRUE,
        users |-> users \cup {[id |-> user_id, email |-> DemoEmail,
                               display_name |-> "Demo User"]}]

ProjectRow(id, title, user_id) ==
  [id |-> id, title |-> title, user_id |-> user_id, status |-> "concept"]

\* what the service leaves alone
serviceEnv ==
  <<model, points_json, i_points_json, taskVars, snapVars, imprintVars, runVars>>

\* create_project, the insert of the project succeeds
create_project(title, user_id) ==
  /\ Len(projects) < MaxProjects
  /\ _ensure_user_exists(user_id).ok
  /\ users' = _ensure_user_exists(user_id).users
  /\ projects' = Append(projects, ProjectRow(Len(projects) + 1, title, user_id))
  /\ last_call' = [op |-> "create", user_id |-> user_id, title |-> title,
                   id |-> Len(projects) + 1, ok |-> TRUE,
                   result |-> <<ProjectRow(Len(projects) + 1, title, user_id)>>]
  /\ UNCHANGED serviceEnv

\* create_project, _ensure_user_exists raises
create_project_raises(title, user_id) ==
  /\ Len(projects) < MaxProjects
  /\ ~_ensure_user_exists(user_id).ok
  /\ last_call' = [op |-> "create", user_id |-> user_id, title |-> title, id |-> 0,
                   ok |-> FALSE, result |-> <<>>]
  /\ UNCHANGED <<serviceEnv, users, projects>>

\* get_user_projects(user_id) with skip 0 and the default limit
get_user_projects(user_id) ==
  /\ last_call' =
       [op |-> "list", user_id |-> user_id, title |-> "", id |-> 0, ok |-> TRUE,
        result |-> LET rows == SelectSeq(projects, LAMBDA r : r.user_id = user_id)
                   IN SubSeq(rows, 1, Min2(Len(rows), DefaultLimit))]
  /\ UNCHANGED <<serviceEnv, users, projects>>

\* get_project(project_id, user_id)
get_project(project_id, user_id) ==
  /\ last_call' =
       [op |-> "get", user_id |-> user_id, title |-> "", id |-> project_id, ok |-> TRUE,
        result |-> LET rows == SelectSeq(projects,
                                         LAMBDA r : r.id = project_id /\ r.user_id = user_id)
                   IN SubSeq(rows, 1, Min2(Len(rows), 1))]
  /\ UNCHANGED <<serviceEnv, users, projects>>

InitProjects ==
  /\ model = QuadMesh
  /\ points_json = NoFile
  /\ i_points_json = NoFile
  /\ sPc = "idle"
  /\ SnapFresh
  /\ iPc = "idle"
  /\ ImprintFresh
  /\ ServiceFresh
  /\ RunsFresh
  /\ tPc = "none"
  /\ TaskFresh

NextProjects ==
  \/ \E t \in Titles, u \in UserIds : create_project(t, u)
  \/ \E t \in Titles, u \in UserIds : create_project_raises(t, u)
  \/ \E u \in UserIds : get_user_projects(u)
  \/ \E pid \in 1..MaxProjects, u \in UserIds : get_project(pid, u)

SpecProjects == InitProjects /\ [][NextProjects]_vars

(***************************************************************************)
(* Both scripts started from the command line on one point list, written   *)
(* for each of them either as a bare list or as an object with a points    *)
(* list; the snap script with --axis identity --points_origin as_is.       *)
(***************************************************************************)
LoadPointSet == {Vec(0, 0, 0), Vec(2, 2, 0), Vec(1, 0, 0)}

InitLoad ==
  /\ model = QuadMesh
  /\ points_json \in PayloadsOver(LoadPointSet)
  /\ i_points_json \in {[kind |-> kd, items |-> points_json.items] : kd \in {"list", "object"}}
  /\ sPc = "start"
  /\ SnapFresh
  /\ iPc = "start"
  /\ ImprintFresh
  /\ ServiceFresh
  /\ RunsFresh
  /\ tPc = "none"
  /\ TaskFresh

NextLoad ==
  \/ SnapCalibrate("identity", "as_is", DefaultMaxSnapDist)
  \/ SnapLoadFail
  \/ ImprintLoad(DefaultVertexSnapEps)
  \/ ImprintLoadFail

SpecLoad == InitLoad /\ [][NextLoad]_vars

(***************************************************************************)
(* Properties of the imprint stage.                                        *)
(***************************************************************************)
ResolutionOver == iPc \in {"chain", "preview", "done"}
ChainOver == iPc \in {"preview", "done"}

\* C1: a missed point breaks the chain: every connect that is requested joins
\* the vertices of two points that are adjacent in the input (no connect
\* across the gap a missed point leaves).
C1_MissBreaksChain ==
  \A j \in 1..Len(connect_log) :
    point_src[connect_log[j].i + 1] = point_src[connect_log[j].i] + 1

\* p lies within e of a vertex of m
NearVertex(m, p, e) == \E v \in 1..Len(m.verts) : D2(p, m.verts[v]) <= e * e

AllCoincide ==
  /\ iPc \in {"resolve", "chain", "preview", "done"}
  /\ \A i \in 1..Len(pts_local) : NearVertex(model, pts_local[i], eps)

\* C6: when every point lies within eps of a vertex of the mesh, vertex
\* resolution inserts nothing, reuses one vertex per point and leaves the
\* vertices and faces of the mesh as imported.
C6_CoincidentPointsReuse ==
  AllCoincide =>
    /\ inserted = 0
    /\ missed = 0
    /\ reused = k - 1
    /\ Len(point_verts) = k - 1
    /\ ResolutionOver => reused = Len(pts_local)
    /\ (iPc = "resolve" \/ (iPc = "chain" /\ ci = 1)) =>
         /\ bm.verts = model.verts
         /\ bm.faces = model.faces

C6_Witness ==
  /\ AllCoincide
  /\ iPc = "chain"
  /\ ci = 1
  /\ reused = Len(pts_local)
  /\ Len(model.faces) > 0

\* C7: a point farther than eps from every vertex whose face query hits adds
\* exactly one vertex, at the projected position, and raises inserted by one.
C7_InsertAddsOneVertex ==
  [][(/\ iPc = "resolve"
      /\ k <= Len(pts_local)
      /\ ~NearVertex(bm, pts_local[k], eps)
      /\ NearestLoc(bm, pts_local[k]) # None)
     => /\ bm'.verts = Append(bm.verts, NearestLoc(bm, pts_local[k]))
        /\ inserted' = inserted + 1
        /\ reused' = reused
        /\ missed' = missed
        /\ point_verts' = Append(point_verts, Len(bm.verts) + 1)]_vars

\* the point <<2, 0, 1>> was inserted at its projection <<2, 0, 0>>
C7_Witness ==
  /\ inserted = 1
  /\ Len(bm.verts) = Len(model.verts) + 1
  /\ pts_local[point_src[Len(point_src)]] = Vec(2, 0, 1)
  /\ bm.verts[Len(bm.verts)] = Vec(2, 0, 0)
  /\ point_verts[Len(point_verts)] = Len(bm.verts)

Failures == {j \in 1..Len(connect_log) : connect_log[j].result # "edges"}

\* C8: a connect that returns no edge or raises adds one to connect_failed
\* and nothing else: the script does not end there, and once the chain loop
\* is over every pair of consecutive resolved vertices that are distinct has
\* been handed to the connect operation.
C8_FailedConnectContinues ==
  /\ failed_connect = Cardinality(Failures)
  /\ connect_log # <<>> => iPc \in {"chain", "preview", "done"}
  /\ \A j \in 1..Len(connect_log) : j > 1 => connect_log[j].i > connect_log[j - 1].i
  /\ ChainOver =>
       \A i \in 1..(Len(point_verts) - 1) :
         point_verts[i] # point_verts[i + 1] =>
           \E j \in 1..Len(connect_log) : connect_log[j].i = i

C8_Witness ==
  /\ iPc = "done"
  /\ Len(connect_log) >= 2
  /\ connect_log[1].result = "raise"
  /\ connect_log[2].result = "edges"
  /\ failed_connect = 1

\* C9: a consecutive pair resolved to one vertex is not handed to the connect
\* operation and does not count as a failed connect.
C9_DegeneratePairSkipped ==
  [][(InChain /\ point_verts[ci] = point_verts[ci + 1])
     => /\ connect_log' = connect_log
        /\ failed_connect' = failed_connect
        /\ bm' = bm
        /\ ci' = ci + 1]_vars

C9_Witness ==
  /\ iPc = "chain"
  /\ ci > 1
  /\ point_verts[ci - 1] = point_verts[ci]

\* C10: after the chain loop every reported seam edge is flagged on the
\* mesh, every edge a connect returned is flagged and reported, and the
\* preview has as many edges as the report counts.
C10_SeamEdgesFlagged ==
  /\ iPc = "chain" =>
       \A j \in 1..Len(connect_log) : \A e \in connect_log[j].edges : bm.edges[e].seam
  /\ iPc = "done" =>
       /\ \A j \in 1..Len(seam_edge_indices) : me.edges[seam_edge_indices[j]].seam
       /\ \A j \in 1..Len(connect_log) : \A e \in connect_log[j].edges :
            /\ me.edges[e].seam
            /\ e \in Range(seam_edge_indices)
       /\ report.seam_edges = Len(seam_edge_indices)
       /\ seam_edge_indices # <<>> =>
            /\ preview.ok
            /\ Len(preview.edges) = report.seam_edges

C10_Witness ==
  /\ iPc = "done"
  /\ preview.ok
  /\ Len(preview.edges) >= 2
  /\ \E j \in 1..Len(connect_log) : Cardinality(connect_log[j].edges) = 2

\* the edges the connects of this run returned
ConnectedEdges == UNION {connect_log[j].edges : j \in 1..Len(connect_log)}

\* C11: the reported seam-edge list and count hold only edges this run
\* flagged through a connect: an edge flagged in the imported mesh that no
\* connect returned is not listed.
C11_OnlyNewlyFlagged ==
  iPc = "done" =>
    /\ Range(seam_edge_indices) \subseteq ConnectedEdges
    /\ report.seam_edges = Cardinality(ConnectedEdges)

\* C16: a run that leaves no edge seam-flagged fails with the no-seam-edges
\* error of the preview extraction: it does not end successfully with zero
\* seam edges.
C16_NoSeamEdgesFails ==
  (iPc \in {"done", "failed"} /\ ChainOver) =>
    /\ seam_edge_indices # <<>>
    /\ report.seam_edges > 0
    /\ preview.ok

\* the source vertices the listed seam edges refer to
SeamVerts ==
  UNION {{me.edges[seam_edge_indices[j]].a, me.edges[seam_edge_indices[j]].b} :
           j \in 1..Len(seam_edge_indices)}

\* C21: the preview has one edge per seam edge handed to the extractor, one
\* vertex per source vertex those edges refer to (no vertex twice, none
\* unreferenced, indices without gaps), and its edge j joins the preview
\* vertices at the positions of the two ends of seam edge j.
C21_PreviewStructure ==
  (iPc = "done" /\ seam_edge_indices # <<>>) =>
    /\ preview.ok
    /\ Len(preview.edges) = Len(seam_edge_indices)
    /\ Len(preview.verts) = Cardinality(SeamVerts)
    /\ \A j \in 1..Len(preview.edges) :
         LET e == me.edges[seam_edge_indices[j]]
         IN /\ preview.edges[j][1] \in 1..Len(preview.verts)
            /\ preview.edges[j][2] \in 1..Len(preview.verts)
            /\ preview.verts[preview.edges[j][1]] = me.verts[e.a]
            /\ preview.verts[preview.edges[j][2]] = me.verts[e.b]
    /\ \A v \in 1..Len(preview.verts) :
         \E j \in 1..Len(preview.edges) : v \in {preview.edges[j][1], preview.edges[j][2]}
    /\ \A i, j \in 1..Len(preview.edges) : \A a, b \in 1..2 :
         LET SrcEnd(n, c) == IF c = 1 THEN me.edges[seam_edge_indices[n]].a
                             ELSE me.edges[seam_edge_indices[n]].b
         IN (preview.edges[i][a] = preview.edges[j][b]) <=> (SrcEnd(i, a) = SrcEnd(j, b))

\* two seam edges that share a vertex
C21_Witness ==
  /\ iPc = "done"
  /\ preview.ok
  /\ Len(preview.edges) >= 2
  /\ Len(preview.verts) < 2 * Len(preview.edges)

\* C22: building the preview changes nothing of the source mesh: vertices,
\* edges, faces and seam flags are after the extraction what they were
\* before, and so is the list of seam edges.
C22_PreviewLeavesSource ==
  [][iPc = "preview" => (me' = me /\ seam_edge_indices' = seam_edge_indices)]_vars

C22_Witness ==
  /\ iPc = "done"
  /\ preview.ok
  /\ Len(me.verts) > Len(model.verts)
  /\ \E i \in 1..Len(me.edges) : me.edges[i].seam

\* the vertices this run inserted
InsertedVerts == (Len(model.verts) + 1)..Len(bm.verts)

\* the inserted vertices within eps of the point the resolution loop is at
NearInserted == {v \in InsertedVerts : D2(pts_local[k], bm.verts[v]) <= eps * eps}

C28_CountersPartition ==
  /\ iPc = "resolve" =>
       /\ inserted + reused + missed = k - 1
       /\ Len(point_verts) = inserted + reused
  /\ ResolutionOver =>
       /\ inserted + reused + missed = Len(pts_local)
       /\ Len(point_verts) = inserted + reused
  /\ ChainOver =>
       failed_connect <= (IF point_verts = <<>> THEN 0 ELSE Len(point_verts) - 1)
  /\ iPc = "done" =>
       /\ report.inserted + report.reused + report.missed = report.points
       /\ report.connect_failed = failed_connect

\* a reused point, a missed point, a reused point and a connect that failed
C28_Witness ==
  /\ iPc = "done"
  /\ report.points = 3
  /\ report.missed = 1
  /\ report.reused = 2
  /\ report.connect_failed = 1

\* every count in one run of three points: insert, reuse, failed connect
C28_Inserted ==
  /\ iPc = "done"
  /\ report.inserted >= 1
  /\ report.reused >= 1
  /\ report.connect_failed >= 1

(***************************************************************************)
(* Properties of calibration and snap.                                     *)
(***************************************************************************)
Calibrated == sPc \in {"snap", "done"}

RawPts == LoadPoints(points_json).pts

\* the score of a candidate: _eval_mean_dist of its points
Score(cand) ==
  _eval_mean_dist(model, CandidatePoints(RawPts, _get_bbox_center_world(model), cand),
                  max_snap)

ChosenCand == [axis |-> chosen.axis, origin |-> chosen.origin]

\* C3: the returned candidate is one of the enumerated candidates, none of
\* them has fewer misses, and none with as many misses has a lower mean
\* distance.
C3_ChosenIsLexMin ==
  Calibrated =>
    LET cands == Candidates(axis_arg, origin_arg)
    IN /\ ChosenCand \in Range(cands)
       /\ \A n \in 1..Len(cands) :
            /\ Score(ChosenCand).missed <= Score(cands[n]).missed
            /\ Score(cands[n]).missed = Score(ChosenCand).missed =>
                 ~MeanLess(Score(cands[n]).mean, Score(ChosenCand).mean)

\* C4: an axis or an origin given explicitly is the one reported as chosen.
C4_FixedDimensionKept ==
  Calibrated =>
    /\ axis_arg # "auto" => chosen.axis = axis_arg
    /\ origin_arg # "auto" => chosen.origin = origin_arg

\* C5: the returned points are the raw points under the returned axis and
\* origin, the returned mean and miss count are the evaluation of those
\* points, and missed_eval equals the miss count of the snap loop.
C5_MetricsBelongToChoice ==
  /\ Calibrated =>
       /\ chosen.points =
            CandidatePoints(RawPts, _get_bbox_center_world(model), ChosenCand)
       /\ [mean |-> chosen.mean, missed |-> chosen.missed] =
            _eval_mean_dist(model, chosen.points, max_snap)
  /\ sPc = "done" => out_points_json.chosen.missed_eval = out_points_json.snap.missed

\* the points of the snap loop that are behind it
Snapped == 1..(sk - 1)

SnapMisses == {i \in Snapped : NearestLocWithin(model, chosen.points[i], max_snap) = None}

\* C12: every point the snap loop has passed is in the output, in order, as
\* the surface point of the index when the query hits within max_snap_dist
\* and as the input point when it misses; the miss counter is the number of
\* misses; the stage fails only before calibration and ends with one output
\* point per input point, whatever the number of misses.
C12_SnapHitOrFallback ==
  /\ Calibrated =>
       /\ Len(snapped) = sk - 1
       /\ \A i \in Snapped :
            snapped[i] = IF i \in SnapMisses THEN chosen.points[i]
                         ELSE NearestLocWithin(model, chosen.points[i], max_snap)
       /\ snap_missed = Cardinality(SnapMisses)
       /\ Len(dists_before) = (sk - 1) - snap_missed
  /\ sPc = "done" =>
       /\ sk = Len(chosen.points) + 1
       /\ out_points_json.items = snapped
       /\ out_points_json.snap.missed = snap_missed
  /\ sPc = "failed" => chosen = NoChoice

\* a hit that moved its point, then a miss, and the stage finished
C12_Witness ==
  /\ sPc = "done"
  /\ \E i \in Snapped : i \notin SnapMisses /\ snapped[i] # chosen.points[i]
  /\ \E i \in Snapped : i \in SnapMisses /\ i > 1
  /\ snap_missed >= 1

\* every point missed, the stage finished
C12_AllMissed ==
  /\ sPc = "done"
  /\ snap_missed = Len(chosen.points)
  /\ snapped = chosen.points

IdentityAsIs == [axis |-> "identity", origin |-> "as_is"]

\* the identity / as_is candidate hits every point at distance 0
IdentityAligned ==
  /\ Score(IdentityAsIs).missed = 0
  /\ Score(IdentityAsIs).mean.cnt > 0
  /\ Score(IdentityAsIs).mean.dsum = 0

\* C24: in a full auto search, when identity / as_is scores no miss and mean
\* distance 0, the calibrator returns identity / as_is with the raw points,
\* mean 0 and no miss, whatever the other five candidates score.
C24_AlignedIdentityChosen ==
  (Calibrated /\ axis_arg = "auto" /\ origin_arg = "auto" /\ IdentityAligned) =>
    /\ chosen.axis = "identity"
    /\ chosen.origin = "as_is"
    /\ chosen.points = RawPts
    /\ chosen.missed = 0
    /\ chosen.mean = Score(IdentityAsIs).mean

\* identity / as_is is aligned, another candidate hits every point farther
\* off and a third one misses a point
C24_Witness ==
  /\ Calibrated
  /\ axis_arg = "auto"
  /\ origin_arg = "auto"
  /\ IdentityAligned
  /\ chosen.axis = "identity"
  /\ LET cands == Candidates("auto", "auto")
     IN /\ \E n \in 2..Len(cands) :
             Score(cands[n]).missed = 0 /\ Score(cands[n]).mean.dsum > 0
        /\ \E n \in 2..Len(cands) : Score(cands[n]).missed > 0

\* identity / as_is is aligned and every other candidate ties with it
C24_Tie ==
  /\ Calibrated
  /\ IdentityAligned
  /\ chosen.axis = "identity"
  /\ LET cands == Candidates("auto", "auto")
     IN \A n \in 2..Len(cands) : Score(cands[n]) = Score(IdentityAsIs)

(***************************************************************************)
(* Properties of tasks side by side.                                       *)
(***************************************************************************)
\* C26: of two seam tasks with different ids, a step of one changes neither
\* the hash nor the directory of the other, under every interleaving; each
\* hash shows the position of its own task only, and no directory but the
\* tasks' own is written.
C26_RunsShareNoState ==
  /\ [](/\ \A t \in TaskIds :
            /\ runs[t].pc = "new" => (redis[Key(t)] = NoHash /\ out_dirs[OutDir(t)] = {})
            /\ runs[t].pc = "failed" <=> redis[Key(t)].status = "failed"
            /\ runs[t].pc = "done" <=> redis[Key(t)].status = "completed"
            /\ runs[t].pc \in {"queued", "snap", "post_snap"}
                 <=> redis[Key(t)].status = "processing"
        /\ \A d \in DirNames \ TaskIds : out_dirs[d] = {})
  /\ [][\A t \in TaskIds :
          runs'[t] = runs[t] =>
            /\ redis'[Key(t)] = redis[Key(t)]
            /\ out_dirs'[OutDir(t)] = out_dirs[OutDir(t)]]_vars

\* one task completed with imprint while the other failed in its snap run
C26_Witness ==
  /\ runs["t1"].pc = "done"
  /\ runs["t2"].pc = "failed"
  /\ redis[Key("t1")].progress = 100
  /\ redis[Key("t2")].progress = 10
  /\ "blender_imprint.log" \in out_dirs[OutDir("t1")]
  /\ "blender_imprint.log" \notin out_dirs[OutDir("t2")]
  /\ "blender_snap.log" \in out_dirs[OutDir("t2")]

(***************************************************************************)
(* Properties of ProjectService.                                           *)
(***************************************************************************)
\* C27: create_project(data, u) stores the project (and, for a user id not
\* stored yet, the user, once); get_user_projects(u) then returns every
\* project created for u and get_project(id, u) the project itself, with the
\* title and user id of its creation.
C27_CreatedProjectIsReturned ==
  /\ last_call.op = "create" =>
       /\ last_call.ok
       /\ last_call.id \in 1..Len(projects)
       /\ projects[last_call.id].title = last_call.title
       /\ projects[last_call.id].user_id = last_call.user_id
       /\ Cardinality({r \in users : r.id = last_call.user_id}) = 1
  /\ last_call.op = "list" =>
       last_call.result = SelectSeq(projects, LAMBDA r : r.user_id = last_call.user_id)
  /\ (last_call.op = "get" /\ last_call.id \in 1..Len(projects)
        /\ projects[last_call.id].user_id = last_call.user_id) =>
       last_call.result = <<projects[last_call.id]>>
  /\ \A r1, r2 \in users : r1.id = r2.id => r1 = r2

(***************************************************************************)
(* Properties of the loaders.                                              *)
(***************************************************************************)
\* a list of at least two entries, each an object with numeric x, y, z
ValidList(L) == Len(L) >= 2 /\ \A i \in 1..Len(L) : IsPoint(L[i])

SnapLoaded == sPc = "snap"
ImprintLoaded == iPc = "resolve"

\* C13: for a valid list L of two or more points, written as the bare list
\* or as {"points": L}, the snap loader and the imprint loader both succeed
\* and both give the points of L in the order of L.
C13_ListAndObjectLoadAlike ==
  (/\ ValidList(points_json.items)
   /\ points_json.kind \in {"list", "object"}
   /\ i_points_json.kind \in {"list", "object"}
   /\ i_points_json.items = points_json.items)
  => /\ sPc # "failed"
     /\ iPc # "failed"
     /\ SnapLoaded => chosen.points = points_json.items
     /\ ImprintLoaded => pts_local = points_json.items
     /\ (SnapLoaded /\ ImprintLoaded) => chosen.points = pts_local

\* the snap script read {"points": L}, the imprint script the bare L
C13_Witness ==
  /\ points_json.kind = "object"
  /\ i_points_json.kind = "list"
  /\ SnapLoaded
  /\ ImprintLoaded
  /\ pts_local = <<Vec(2, 2, 0), Vec(0, 0, 0), Vec(1, 0, 0)>>
  /\ chosen.points = pts_local

\* C15: a point list with an entry that is no object with numeric x, y and
\* z makes the loader fail: it gives no point sequence.
C15_MalformedEntryRejected ==
  (\E i \in 1..Len(points_json.items) : ~IsPoint(points_json.items[i]))
  => /\ ~SnapLoaded
     /\ ~ImprintLoaded
     /\ chosen.points = <<>>
     /\ pts_local = <<>>

(***************************************************************************)
(* Properties of a pipeline run.                                           *)
(***************************************************************************)
TaskOver == tPc \in {"done", "failed"}

\* C17: on a mesh without vertices and faces, with a loadable point list,
\* the snap stage and the imprint stage fail with an empty-mesh error: neither ends normally after
\* counting every point missed, and the run does not complete.
C17_EmptyMeshFails ==
  (model.verts = <<>> /\ model.faces = <<>> /\ LoadPoints(points_json).ok) =>
    /\ sPc # "done"
    /\ iPc # "done"
    /\ status # "completed"

\* the uploaded payload gives the loader fewer than two points
TooFewPoints == ~LoadPoints(points_json).ok

\* C14: a payload that yields fewer than two points is a hard input error:
\* the loader raises, no calibration, snap or imprint step runs on it, and
\* the run ends failed.
C14_TooFewPointsFailsRun ==
  (TooFewPoints /\ sPc # "idle") =>
    /\ ~Calibrated
    /\ chosen = NoChoice
    /\ snapped = <<>>
    /\ pts_local = <<>>
    /\ point_verts = <<>>
    /\ TaskOver => status = "failed"

\* C29: the point list the snap stage writes has one point per calibrated
\* point, in order (point i is the hit or the fallback of input point i), the
\* number of residuals plus the miss count is its length, and the imprint
\* stage's loader accepts it and loads those points.
C29_SnapOutputLoads ==
  /\ sPc = "done" =>
       /\ Len(out_points_json.items) = Len(chosen.points)
       /\ \A i \in 1..Len(chosen.points) :
            out_points_json.items[i] =
              IF NearestLocWithin(model, chosen.points[i], max_snap) = None
              THEN chosen.points[i]
              ELSE NearestLocWithin(model, chosen.points[i], max_snap)
       /\ out_points_json.snap.stats_before.count + out_points_json.snap.missed
            = Len(out_points_json.items)
       /\ LoadPoints(out_points_json).ok
       /\ LoadPoints(out_points_json).pts = out_points_json.items
  /\ (sPc = "done" /\ iPc \notin {"idle", "start", "crashed"}) =>
       /\ iPc # "failed"
       /\ pts_local = out_points_json.items

\* the imprint stage loaded a snap output with a hit and a miss
C29_Witness ==
  /\ sPc = "done"
  /\ iPc = "resolve"
  /\ pts_local = snapped
  /\ out_points_json.snap.missed >= 1
  /\ out_points_json.snap.stats_before.count >= 1

\* type and file name of every descriptor
Descriptors(fs) == [i \in 1..Len(fs) |-> <<fs[i].type, fs[i].url>>]

\* C30: result_files is written only in the update that sets COMPLETED: the
\* curve blend, the snapped JSON and the snap log when do_imprint is 0, with
\* the imprint blend and the imprint log in front of them otherwise; a task
\* that failed has published none.
C30_ResultFilesOnlyWhenCompleted ==
  /\ [](/\ result_files # <<>> <=> status = "completed"
        /\ status = "failed" => result_files = <<>>
        /\ (status = "completed" /\ payload.do_imprint = 0) =>
             Descriptors(result_files) =
               << <<"blend", "curve_snapped.blend">>, <<"json", "snapped_points.json">>,
                  <<"log", "blender_snap.log">> >>
        /\ (status = "completed" /\ payload.do_imprint # 0) =>
             Descriptors(result_files) =
               << <<"blend", "seam_imprinted_preview.blend">>,
                  <<"log", "blender_imprint.log">>,
                  <<"blend", "curve_snapped.blend">>, <<"json", "snapped_points.json">>,
                  <<"log", "blender_snap.log">> >>
        /\ \A i \in 1..Len(result_files) : result_files[i].preview_image_url = "")
  /\ [][result_files' # result_files => (status # "completed" /\ status' = "completed")]_vars

C30_Witness ==
  /\ status = "completed"
  /\ payload.do_imprint = 1
  /\ Len(result_files) = 5
  /\ iPc = "done"

\* a file run_seam_task looks for is not there
FileMissing == NeededFiles \cap missing # {}

\* C18: a missing model, points or script file and a host stage that exits
\* non-zero each leave the task FAILED with a non-empty error; once FAILED
\* the status stays, no stage is started or run further and nothing else of
\* the task changes.
C18_FailedIsTerminal ==
  /\ [](/\ (FileMissing /\ tPc # "queued") =>
            (status = "failed" /\ sPc = "idle" /\ iPc = "idle")
        /\ (sPc = "crashed" \/ iPc = "crashed") => status = "failed"
        /\ status = "failed" => (error # "" /\ tPc = "failed")
        /\ tPc = "failed" => status = "failed")
  /\ [][status = "failed" => UNCHANGED vars]_vars

\* the imprint run exited non-zero after the snap stage
C18_Witness ==
  /\ status = "failed"
  /\ error # ""
  /\ iPc = "crashed"
  /\ sPc = "done"

\* C19: the imprint stage starts only after the snap stage (load, calibrate,
\* snap) has finished successfully; it runs if and only if do_imprint is
\* non-zero, at most once, on the point file the snap stage wrote.
C19_SnapThenImprint ==
  /\ [](/\ iPc # "idle" =>
            /\ sPc = "done"
            /\ payload.do_imprint # 0
            /\ i_points_json = out_points_json
            /\ i_points_json.items = snapped
        /\ status = "completed" => (iPc # "idle" <=> payload.do_imprint # 0))
  /\ [][iPc' = "start" => (iPc = "idle" \/ iPc = "start")]_vars

\* C20: progress is 0 at submission, 10 once the task has started, 50 once
\* the snap run has returned and 100 at completion; it never decreases, 100
\* comes only with status COMPLETED, and a failure leaves progress at the
\* last checkpoint.
C20_ProgressCheckpoints ==
  /\ [](/\ progress \in {0, 10, 50, 100}
        /\ tPc = "queued" => progress = 0
        /\ tPc = "snap" => progress = 10
        /\ tPc \in {"post_snap", "imprint"} => progress = 50
        /\ progress >= 50 => sPc \in {"done", "failed"}
        /\ progress = 100 <=> status = "completed")
  /\ [][/\ progress' >= progress
        /\ status' = "failed" => progress' = progress
        /\ progress' # progress =>
             \/ (progress = 0 /\ progress' = 10)
             \/ (progress = 10 /\ progress' = 50)
             \/ (progress = 50 /\ progress' = 100)]_vars

\* the task failed in the imprint run and stays at 50
C20_Witness ==
  /\ status = "failed"
  /\ progress = 50
  /\ tPc = "failed"

\* the task went through all four checkpoints
C20_Completed ==
  /\ status = "completed"
  /\ progress = 100
  /\ iPc = "done"

\* C2: in a pipeline run a point the snap query missed (its surface distance
\* exceeds max_snap_dist) is counted missed by the imprint stage and gives
\* the mesh no vertex; the other points are resolved.
FarPoints ==
  {i \in 1..Len(chosen.points) :
     /\ NearestLoc(model, chosen.points[i]) # None
     /\ D2(chosen.points[i], NearestLoc(model, chosen.points[i])) > max_snap * max_snap}

C2_FarPointMissedByImprint ==
  (tPc \in {"imprint", "done"} /\ ResolutionOver) =>
    /\ \A i \in FarPoints : i \notin Range(point_src)
    /\ missed >= Cardinality(FarPoints)

====
